---- MODULE Spec2Model ----
(***************************************************************************)
(* Model of the `alt` interpreter: the AST (src/src/ast.rs), the tree      *)
(* walking evaluator and its dispatch contract (src/src/eval.rs), the      *)
(* builtin evaluator (src/src/goodies.rs), the evaluator of the binary     *)
(* (src/src/main.rs), the parser (src/src/parser.rs) and the lexer         *)
(* (src/src/lexer.rs), as functions and, for the front end, step by step.  *)
(*                                                                         *)
(* Strings of the AST are TLA+ strings.  f32 values are modelled as exact  *)
(* decimals (mant * 10^-dec, normalised); f32 rounding is not modelled.    *)
(***************************************************************************)
EXTENDS Integers, Sequences, FiniteSets, TLC

VARIABLES
    pc,              \* position of the driver: what has run so far
    evaluator,       \* which Evaluator implementation ran eval
    good_evaluator,  \* goodies::Evaluator { value_functions, record_functions }
    root,            \* the tree handed to eval
    result,          \* what eval returned
    calls,           \* history: the host function invocations, in order
    written,         \* the object entries a source text was written from
    tokens,          \* the token sequence handed to the parser
    parsed,          \* what the parser returned
    source,          \* the characters handed to the lexer
    cursor,          \* `it` of the running loop: the next character or token
    locals           \* the running loops, innermost last, with their local variables

vars == <<pc, evaluator, good_evaluator, root, result, calls,
          written, tokens, parsed, source, cursor, locals>>

(***************************************************************************)
(* Bounds of the model.                                                    *)
(***************************************************************************)
MaxDepth == 2        \* nesting depth of the single-child trees
MaxEntries == 3      \* entries of an object / elements of an array
MaxMetaEntries == 2  \* records of the argument of #meta-eval
MaxWritten == 2      \* entries of a written document
MaxSeparators == 2   \* separators written after an entry
MaxIntDigits == 2    \* digits typed before the dot of a float
MaxFracDigits == 2   \* digits typed after the dot of a float

(***************************************************************************)
(* ast.rs: Value, Typed, Call, Record, RecordOrCall                        *)
(***************************************************************************)
Number(n) == [tag |-> "Number", n |-> n]

\* Float(f32): mant * 10^-dec with no trailing zero in the fraction
Float(mant, dec) == [tag |-> "Float", mant |-> mant, dec |-> dec]

String(s) == [tag |-> "String", s |-> s]

ObjectWithCalls(v) == [tag |-> "ObjectWithCalls", entries |-> v]

Object(v) == [tag |-> "Object", records |-> v]

Array(v) == [tag |-> "Array", items |-> v]

CallValue(function, value) ==
    [tag |-> "Call", function |-> function, value |-> value]

Typed(kind, value) == [tag |-> "Typed", kind |-> kind, value |-> value]

Record(id, value) == [id |-> id, value |-> value]

\* RecordOrCall::Record(Record { id, value })
RecordEntry(id, value) == [rc |-> "Record", id |-> id, value |-> value]

\* RecordOrCall::Call(Call { function, value })
CallEntry(function, value) ==
    [rc |-> "Call", function |-> function, value |-> value]

\* lib.rs: const VERSION: Version = 1.0
VERSION == Float(1, 0)

(***************************************************************************)
(* eval.rs: Error and the results of the walk                              *)
(***************************************************************************)
\* eval::Error::InvalidFunction (a unit variant: it carries no name)
InvalidFunction == [type |-> "InvalidFunction"]

\* eval::Error::Eval(Box<dyn StdError>)
EvalError(cause) == [type |-> "Eval", cause |-> cause]

Ok(value) == [kind |-> "Ok", value |-> value]

\* Ok(Option<Record>): the option is a sequence of zero or one record
OkRecord(opt) == [kind |-> "Ok", rec |-> opt]

Err(e) == [kind |-> "Err", err |-> e]

\* The match of Evaluator::eval lists no arm for Value::Array: no result
\* is produced for such a node (rustc rejects the match as non-exhaustive).
Unmatched == [kind |-> "Unmatched"]

(***************************************************************************)
(* goodies.rs                                                              *)
(***************************************************************************)
\* goodies::Error, wrapped by From<Error> for EvalError
GoodiesErrorValue(e, v) == EvalError([e |-> e, v |-> v])

GoodiesErrorName(e, name) == EvalError([e |-> e, name |-> name])

\* #[derive(Default)] struct Evaluator
DefaultEvaluator == [value_functions |-> <<>>, record_functions |-> <<>>]

\* meta_lang accepting any version
meta_lang_any_version(value) ==
    IF value.tag = "Float"
    THEN OkRecord(<<>>)
    ELSE Err(GoodiesErrorValue("InvalidData", value))

meta_lang(value) ==
    IF value.tag = "Float"
    THEN IF value # VERSION
         THEN Err(GoodiesErrorValue("VersionMismatch", value))
         ELSE OkRecord(<<>>)
    ELSE Err(GoodiesErrorValue("InvalidData", value))

url(value) ==
    IF value.tag = "String"
    THEN Ok(Typed("std_url", value))
    ELSE Err(GoodiesErrorValue("InvalidUrl", value))

\* The loop of meta_eval over the records of the object, from record i on.
RECURSIVE meta_eval_loop(_, _, _)
meta_eval_loop(self, object, i) ==
    IF i > Len(object)
    THEN [res |-> OkRecord(<<>>), self |-> self]
    ELSE LET record == object[i] IN
         CASE record.id = "value" ->
                meta_eval_loop(
                    IF record.value.tag = "Object"
                    THEN [self EXCEPT !.value_functions = record.value.records]
                    ELSE self,
                    object, i + 1)
           [] record.id = "record" ->
                meta_eval_loop(
                    IF record.value.tag = "Object"
                    THEN [self EXCEPT !.record_functions = record.value.records]
                    ELSE self,
                    object, i + 1)
           [] OTHER ->
                [res |-> Err(GoodiesErrorName("InvalidEntry", record.id)),
                 self |-> self]

meta_eval(self, value) ==
    IF value.tag = "Object"
    THEN meta_eval_loop(self, value.records, 1)
    ELSE [res |-> Err(GoodiesErrorValue("ExpectedObject", value)),
          self |-> self]

goodies_record_function_eval(self, call) ==
    CASE call.function = "meta-lang" ->
           [res |-> meta_lang(call.value), self |-> self]
      [] call.function = "meta-eval" -> meta_eval(self, call.value)
      [] OTHER ->
           [res |-> Err(GoodiesErrorName("InvalidFunction",
                                         "#" \o call.function)),
            self |-> self]

goodies_value_function_eval(self, call) ==
    CASE call.function = "std_url" ->
           [res |-> url(call.value), self |-> self]
      [] OTHER ->
           [res |-> Err(GoodiesErrorName("InvalidFunction",
                                         "@" \o call.function)),
            self |-> self]

(***************************************************************************)
(* main.rs: struct T { good_evaluator }                                    *)
(***************************************************************************)
\* main::Error::{NotName, NotNumber} and ParseIntError, boxed in Error::Eval
MainError(e) == EvalError([main |-> e])

\* str::parse::<i32> on the strings of the model: "7" is the one that is
\* a decimal integer
ParseI32(s) == IF s = "7" THEN Ok(Number(7)) ELSE Err(MainError("ParseIntError"))

\* i32::to_string on the numbers of the model
to_string(n) == CASE n = 2 -> "2" [] n = 7 -> "7" [] OTHER -> "0"

T_call(x) == IF x.tag = "String" THEN ParseI32(x.s) ELSE Ok(x)

T_pisoi(x) ==
    IF x.tag = "String" THEN Ok(Typed("pisoi", x))
    ELSE Err(MainError("NotName"))

T_itoa(x) ==
    IF x.tag = "Number" THEN Ok(String(to_string(x.n)))
    ELSE Err(MainError("NotNumber"))

T_pisoi_record(x) ==
    IF x.tag = "String" THEN OkRecord(<<Record(x.s, Typed("pisoi", x))>>)
    ELSE Err(MainError("NotName"))

T_value_function_eval(self, call) ==
    CASE call.function = "call" -> [res |-> T_call(call.value), self |-> self]
      [] call.function = "pisoi" -> [res |-> T_pisoi(call.value), self |-> self]
      [] call.function = "itoa" -> [res |-> T_itoa(call.value), self |-> self]
      [] OTHER -> goodies_value_function_eval(self, call)

T_record_function_eval(self, call) ==
    CASE call.function = "pisoi" ->
           [res |-> T_pisoi_record(call.value), self |-> self]
      [] OTHER -> goodies_record_function_eval(self, call)

(***************************************************************************)
(* eval.rs: fn eval(root, value_functions, record_functions) with the      *)
(* closures of tests::eval_call: a table holding `call`, the identity      *)
(***************************************************************************)
functions == {"call"}

closure_value_functions(self, c) ==
    [res |-> IF c.function \in functions THEN Ok(c.value)
             ELSE Err(InvalidFunction),
     self |-> self]

closure_record_functions(self, c) ==
    [res |-> Err(InvalidFunction), self |-> self]

(***************************************************************************)
(* eval.rs: trait Evaluator                                                *)
(***************************************************************************)
Evaluators == {"closures", "goodies", "T"}

\* The walk's state: the evaluator (self) and the history of invocations.
Invoked(st, form, call, r) ==
    [self |-> r.self,
     calls |-> Append(st.calls,
                      [form |-> form, function |-> call.function,
                       value |-> call.value, self |-> st.self,
                       res |-> r.res])]

value_function_eval(e, st, call) ==
    LET r == CASE e = "closures" -> closure_value_functions(st.self, call)
               [] e = "goodies" -> goodies_value_function_eval(st.self, call)
               [] OTHER -> T_value_function_eval(st.self, call)
    IN [res |-> r.res, st |-> Invoked(st, "value", call, r)]

record_function_eval(e, st, call) ==
    LET r == CASE e = "closures" -> closure_record_functions(st.self, call)
               [] e = "goodies" -> goodies_record_function_eval(st.self, call)
               [] OTHER -> T_record_function_eval(st.self, call)
    IN [res |-> r.res, st |-> Invoked(st, "record", call, r)]

RECURSIVE eval(_, _, _)
RECURSIVE eval_object(_, _, _, _, _)

\* eval_object without the `?` on the value of a plain record: a record
\* whose value fails is left out and the walk goes on with the next entry.
eval_object_salvage(e, st, object, i, obj) ==
    IF i > Len(object)
    THEN [res |-> Ok(Object(obj)), st |-> st]
    ELSE LET record == object[i] IN
         IF record.rc = "Record"
         THEN LET v == eval(e, st, record.value) IN
              IF v.res.kind # "Ok"
              THEN eval_object(e, v.st, object, i + 1, obj)
              ELSE eval_object(e, v.st, object, i + 1,
                               Append(obj, Record(record.id, v.res.value)))
         ELSE LET boxed == eval(e, st, record.value) IN
              IF boxed.res.kind # "Ok" THEN boxed
              ELSE LET optional ==
                         record_function_eval(e, boxed.st,
                             [function |-> record.function,
                              value |-> boxed.res.value])
                   IN IF optional.res.kind # "Ok" THEN optional
                      ELSE eval_object(e, optional.st, object, i + 1,
                                       obj \o optional.res.rec)

\* eval_object putting what a record function returns at the front of the
\* output instead of at its end.
eval_object_front(e, st, object, i, obj) ==
    IF i > Len(object)
    THEN [res |-> Ok(Object(obj)), st |-> st]
    ELSE LET record == object[i] IN
         IF record.rc = "Record"
         THEN LET v == eval(e, st, record.value) IN
              IF v.res.kind # "Ok" THEN v
              ELSE eval_object(e, v.st, object, i + 1,
                               Append(obj, Record(record.id, v.res.value)))
         ELSE LET boxed == eval(e, st, record.value) IN
              IF boxed.res.kind # "Ok" THEN boxed
              ELSE LET optional ==
                         record_function_eval(e, boxed.st,
                             [function |-> record.function,
                              value |-> boxed.res.value])
                   IN IF optional.res.kind # "Ok" THEN optional
                      ELSE eval_object(e, optional.st, object, i + 1,
                                       optional.res.rec \o obj)

\* The ObjectWithCalls arm: the loop over `object` from entry i on, `obj`
\* being the records pushed so far.
eval_object(e, st, object, i, obj) ==
    IF i > Len(object)
    THEN [res |-> Ok(Object(obj)), st |-> st]
    ELSE LET record == object[i] IN
         IF record.rc = "Record"
         THEN LET v == eval(e, st, record.value) IN
              IF v.res.kind # "Ok" THEN v
              ELSE eval_object(e, v.st, object, i + 1,
                               Append(obj, Record(record.id, v.res.value)))
         ELSE LET boxed == eval(e, st, record.value) IN
              IF boxed.res.kind # "Ok" THEN boxed
              ELSE LET optional ==
                         record_function_eval(e, boxed.st,
                             [function |-> record.function,
                              value |-> boxed.res.value])
                   IN IF optional.res.kind # "Ok" THEN optional
                      ELSE eval_object(e, optional.st, object, i + 1,
                                       obj \o optional.res.rec)

\* eval handing the argument of a value call to the function as written,
\* without evaluating it first.
eval_by_name(e, st, node) ==
    CASE node.tag = "Call" ->
           value_function_eval(e, st,
               [function |-> node.function, value |-> node.value])
      [] node.tag = "ObjectWithCalls" ->
           eval_object(e, st, node.entries, 1, <<>>)
      [] node.tag = "Typed" ->
           LET value == eval(e, st, node.value) IN
           IF value.res.kind # "Ok" THEN value
           ELSE [res |-> Ok(Typed(node.kind, value.res.value)),
                 st |-> value.st]
      [] node.tag \in {"Float", "Number", "String", "Object"} ->
           [res |-> Ok(node), st |-> st]
      [] OTHER -> [res |-> Unmatched, st |-> st]

eval(e, st, node) ==
    CASE node.tag = "Call" ->
           LET boxed == eval(e, st, node.value) IN
           IF boxed.res.kind # "Ok" THEN boxed
           ELSE value_function_eval(e, boxed.st,
                    [function |-> node.function, value |-> boxed.res.value])
      [] node.tag = "ObjectWithCalls" ->
           eval_object(e, st, node.entries, 1, <<>>)
      [] node.tag = "Typed" ->
           LET value == eval(e, st, node.value) IN
           IF value.res.kind # "Ok" THEN value
           ELSE [res |-> Ok(Typed(node.kind, value.res.value)),
                 st |-> value.st]
      [] node.tag \in {"Float", "Number", "String", "Object"} ->
           [res |-> Ok(node), st |-> st]
      [] OTHER -> [res |-> Unmatched, st |-> st]

(***************************************************************************)
(* The trees handed to eval.                                               *)
(***************************************************************************)
ValueFunctions == {"call", "pisoi", "itoa", "std_url", "missing"}

RecordFunctions == {"pisoi", "meta-lang", "meta-eval", "missing"}

Leaves == {Number(2), Float(1, 0), Float(2, 0), String("a"), String("7")}

Empties == {ObjectWithCalls(<<>>), Object(<<>>), Array(<<>>)}

\* Every node kind with one child, around the trees of S.
Wrap(S) ==
    S \cup {CallValue(f, v) : f \in ValueFunctions, v \in S}
      \cup {Typed("k", v) : v \in S}
      \cup {Object(<<Record("a", v)>>) : v \in S}
      \cup {ObjectWithCalls(<<RecordEntry("a", v)>>) : v \in S}
      \cup {ObjectWithCalls(<<CallEntry(g, v)>>) : g \in RecordFunctions, v \in S}
      \cup {Array(<<v>>) : v \in S}

RECURSIVE Chains(_)
Chains(d) == IF d = 0 THEN Leaves ELSE Wrap(Chains(d - 1))

SeqsBetween(S, lo, hi) == UNION {[1..n -> S] : n \in lo..hi}

WideEntries ==
    {RecordEntry("a", v) :
        v \in {Number(2), CallValue("call", Number(2)),
               CallValue("missing", Number(2))}}
    \cup {CallEntry("pisoi", String("a")), CallEntry("missing", String("a")),
          CallEntry("meta-lang", String("a")), CallEntry("meta-lang", VERSION),
          CallEntry("meta-lang", Float(2, 0))}

WideItems == {Number(2), String("a"), CallValue("call", Number(2))}

Wide ==
    {ObjectWithCalls(es) : es \in SeqsBetween(WideEntries, 2, MaxEntries)}
    \cup {Array(vs) : vs \in SeqsBetween(WideItems, 2, MaxEntries)}

\* Documents with a #meta-eval directive between other records.
MetaTables == {ObjectWithCalls(<<RecordEntry("call", Number(2))>>), Number(2)}

MetaArgs ==
    {ObjectWithCalls(es) :
        es \in SeqsBetween({RecordEntry(id, t) :
                               id \in {"value", "record", "other"},
                               t \in MetaTables}, 0, MaxMetaEntries)}

MetaBefore ==
    {<<>>, <<RecordEntry("a", CallValue("std_url", String("a")))>>,
     <<RecordEntry("a", CallValue("call", Number(2)))>>}

MetaAfter ==
    {<<>>, <<RecordEntry("b", CallValue("call", Number(2)))>>,
     <<CallEntry("call", Number(2))>>}

MetaDocuments ==
    {ObjectWithCalls(before \o <<CallEntry("meta-eval", arg)>> \o after) :
        before \in MetaBefore, arg \in MetaArgs, after \in MetaAfter}

\* A value call, a record and a tag around the trees of S.
Around(S) ==
    S \cup {CallValue("call", v) : v \in S}
      \cup {ObjectWithCalls(<<RecordEntry("a", v)>>) : v \in S}
      \cup {Typed("k", v) : v \in S}

Inputs ==
    Chains(MaxDepth) \cup Wrap(Empties) \cup Around(Wide) \cup MetaDocuments

(***************************************************************************)
(* The evaluation of one document by each implementation of Evaluator.     *)
(***************************************************************************)
NoResult == [kind |-> "None"]

InitEval ==
    /\ pc = "built"
    /\ evaluator = "none"
    /\ good_evaluator = DefaultEvaluator
    /\ root \in Inputs
    /\ result = NoResult
    /\ calls = <<>>
    /\ written = <<>>
    /\ tokens = <<>>
    /\ parsed = NoResult
    /\ source = <<>>
    /\ cursor = 0
    /\ locals = <<>>

\* Run with the walk rewriting the tree it is given instead of building one
Run_in_place(e) ==
    /\ pc = "built"
    /\ LET r == eval(e, [self |-> good_evaluator, calls |-> <<>>], root) IN
         /\ result' = r.res
         /\ good_evaluator' = r.st.self
         /\ calls' = r.st.calls
         /\ root' = IF r.res.kind = "Ok" THEN r.res.value ELSE root
    /\ evaluator' = e
    /\ pc' = "evaluated"
    /\ UNCHANGED <<written, tokens, parsed, source, cursor, locals>>

\* eval(&mut self, root: &Value): the tree is borrowed and read only
Run(e) ==
    /\ pc = "built"
    /\ LET r == eval(e, [self |-> good_evaluator, calls |-> <<>>], root) IN
         /\ result' = r.res
         /\ good_evaluator' = r.st.self
         /\ calls' = r.st.calls
    /\ evaluator' = e
    /\ pc' = "evaluated"
    /\ UNCHANGED <<root, written, tokens, parsed, source, cursor, locals>>

\* eval.rs: eval(&root, &mut |c| ..., &mut |_| Err(Error::InvalidFunction))
EvalClosures == Run("closures")

\* goodies::Evaluator::default().eval(&parsed)
EvalGoodies == Run("goodies")

\* main.rs: ev.eval(&object)
EvalT == Run("T")

NextEval == EvalClosures \/ EvalGoodies \/ EvalT

SpecEval == InitEval /\ [][NextEval]_vars

(***************************************************************************)
(* Properties of the evaluation.                                           *)
(***************************************************************************)
Evaluated == pc = "evaluated"

Fresh == [self |-> DefaultEvaluator, calls |-> <<>>]

Last(s) == s[Len(s)]

\* v holds a Call or an ObjectWithCalls node at some depth
RECURSIVE HasCall(_)
HasCall(v) ==
    CASE v.tag \in {"Call", "ObjectWithCalls"} -> TRUE
      [] v.tag = "Object" ->
           \E i \in 1..Len(v.records) : HasCall(v.records[i].value)
      [] v.tag = "Array" -> \E i \in 1..Len(v.items) : HasCall(v.items[i])
      [] v.tag = "Typed" -> HasCall(v.value)
      [] OTHER -> FALSE

\* what a host function returned holds no call when its argument held none
HostsCallFree ==
    \A i \in 1..Len(calls) :
        (calls[i].res.kind = "Ok" /\ ~HasCall(calls[i].value)) =>
            IF calls[i].form = "value"
            THEN ~HasCall(calls[i].res.value)
            ELSE \A k \in 1..Len(calls[i].res.rec) :
                     ~HasCall(calls[i].res.rec[k].value)

\* C1: whenever eval returns Ok(v), with host functions that return
\* call-free values, v holds no Call and no ObjectWithCalls node at any
\* depth, whatever the input tree (trees holding a Value::Object included).
C1_EvaluatedTreeIsCallFree ==
    (Evaluated /\ result.kind = "Ok" /\ HostsCallFree) => ~HasCall(result.value)

Ids(table) == {table[i].id : i \in 1..Len(table)}

\* C2: once a #meta-eval directive has registered a name in the table of
\* value functions (resp. record functions), a later call of that name is
\* dispatched: it is not rejected as an invalid function.
C2_MetaEvalChangesLaterDispatch ==
    Evaluated =>
        \A j \in 1..Len(calls) :
            LET c == calls[j]
                table == IF c.form = "value" THEN c.self.value_functions
                         ELSE c.self.record_functions
                sigil == IF c.form = "value" THEN "@" ELSE "#"
            IN c.function \in Ids(table) =>
                   c.res # Err(EvalError([e |-> "InvalidFunction",
                                          name |-> sigil \o c.function]))

\* C3: evaluation is fail-fast: the host function call that returns an
\* error is the last one invoked, and its error is the whole result of
\* eval; eval returns an error only that way.
C3_FailFast ==
    Evaluated =>
        /\ \A i \in 1..Len(calls) :
               calls[i].res.kind = "Err" =>
                   i = Len(calls) /\ result = calls[i].res
        /\ result.kind = "Err" =>
               calls # <<>> /\ Last(calls).res = result

\* the number of Call nodes (both forms) of a tree
RECURSIVE CountCalls(_)
RECURSIVE CountCallsIn(_, _)
CountCallsIn(s, i) ==
    IF i > Len(s) THEN 0 ELSE CountCalls(s[i]) + CountCallsIn(s, i + 1)

CountCalls(v) ==
    IF "rc" \in DOMAIN v
    THEN (IF v.rc = "Call" THEN 1 ELSE 0) + CountCalls(v.value)
    ELSE CASE v.tag = "Call" -> 1 + CountCalls(v.value)
           [] v.tag = "Typed" -> CountCalls(v.value)
           [] v.tag = "ObjectWithCalls" -> CountCallsIn(v.entries, 1)
           [] OTHER -> 0

\* C3 witness: a first function failed and a later call was never invoked
C3_Witness ==
    /\ Evaluated
    /\ result.kind = "Err"
    /\ Len(calls) = 1
    /\ root.tag = "ObjectWithCalls"
    /\ Len(root.entries) = 3
    /\ CountCalls(root) = 3

\* C4: evaluation is call-by-value: the function of a call (value form, or
\* record form as an entry of an object) is invoked after every invocation
\* of its argument subtree, with the evaluated argument, and not at all when
\* the argument fails; the result of a value function replaces the call, so
\* that `@call v` with `call` the identity evaluates to what v evaluates to,
\* also as the value of a record inside an object.
C4_CallByValue ==
    Evaluated =>
        LET arg == IF root.tag = "Call" THEN root.value
                   ELSE IF root.entries[1].rc = "Call"
                        THEN root.entries[1].value
                        ELSE root.entries[1].value.value
            a == eval(evaluator, Fresh, arg)
            n == Len(a.st.calls)
        IN
        /\ root.tag = "Call" =>
               IF a.res.kind = "Ok"
               THEN /\ Len(calls) = n + 1
                    /\ SubSeq(calls, 1, n) = a.st.calls
                    /\ Last(calls).form = "value"
                    /\ Last(calls).function = root.function
                    /\ Last(calls).value = a.res.value
                    /\ result = Last(calls).res
                    /\ (evaluator = "closures" /\ root.function = "call")
                           => result = a.res
               ELSE result = a.res /\ calls = a.st.calls
        /\ (/\ root.tag = "ObjectWithCalls"
            /\ Len(root.entries) = 1
            /\ root.entries[1].rc = "Call") =>
               IF a.res.kind = "Ok"
               THEN /\ Len(calls) = n + 1
                    /\ SubSeq(calls, 1, n) = a.st.calls
                    /\ Last(calls).form = "record"
                    /\ Last(calls).function = root.entries[1].function
                    /\ Last(calls).value = a.res.value
               ELSE result = a.res /\ calls = a.st.calls
        /\ (/\ root.tag = "ObjectWithCalls"
            /\ Len(root.entries) = 1
            /\ root.entries[1].rc = "Record"
            /\ root.entries[1].value.tag = "Call"
            /\ root.entries[1].value.function = "call"
            /\ evaluator = "closures") =>
               IF a.res.kind = "Ok"
               THEN result = Ok(Object(<<Record(root.entries[1].id,
                                               a.res.value)>>))
               ELSE result = a.res

\* C4 witness: a call whose argument is itself a call; both were invoked,
\* the inner one first and the outer one with the inner one's result
C4_Witness ==
    /\ Evaluated
    /\ root.tag = "Call"
    /\ root.value.tag = "Call"
    /\ root.function # root.value.function
    /\ result.kind = "Ok"
    /\ Len(calls) = 2
    /\ calls[1].function = root.value.function
    /\ calls[2].value = calls[1].res.value
    /\ calls[2].value # root.value

RECURSIVE Flatten(_, _)
Flatten(ss, i) == IF i > Len(ss) THEN <<>> ELSE ss[i] \o Flatten(ss, i + 1)

\* the state of the walk of an object when it reaches entry i
Before(entries, i) ==
    eval(evaluator, Fresh, ObjectWithCalls(SubSeq(entries, 1, i - 1))).st

\* the records entry i puts in the output: the record with its value
\* evaluated, or what the record function returned for the evaluated argument
Contribution(entries, i) ==
    LET a == eval(evaluator, Before(entries, i), entries[i].value) IN
    IF entries[i].rc = "Record"
    THEN <<Record(entries[i].id, a.res.value)>>
    ELSE record_function_eval(evaluator, a.st,
             [function |-> entries[i].function, value |-> a.res.value]).res.rec

\* C5: evaluating an object (as parsed: ObjectWithCalls) yields an Object
\* whose records are, in source order, each plain record with its value
\* evaluated and, at the place of each record-call, the record its function
\* returned; a record-call returning None leaves no record, so the length
\* is (plain records + record-calls returning Some), at most the input's.
C5_ObjectEntriesInOrder ==
    (Evaluated /\ root.tag = "ObjectWithCalls" /\ result.kind = "Ok") =>
        LET entries == root.entries
            out == [i \in 1..Len(entries) |-> Contribution(entries, i)]
            plain == {i \in 1..Len(entries) : entries[i].rc = "Record"}
            some == {i \in 1..Len(entries) :
                        entries[i].rc = "Call" /\ out[i] # <<>>}
        IN /\ result.value = Object(Flatten(out, 1))
           /\ Len(result.value.records)
                  = Cardinality(plain) + Cardinality(some)
           /\ Len(result.value.records) <= Len(entries)

\* C5 witness: three entries, a record-call that returned None, one that
\* returned Some and a plain record: two records come out
C5_Witness ==
    /\ Evaluated
    /\ result.kind = "Ok"
    /\ root.tag = "ObjectWithCalls"
    /\ Len(root.entries) = 3
    /\ root.entries[1].rc = "Call"
    /\ root.entries[3].rc = "Record"
    /\ Len(result.value.records) = 2
    /\ \E i, j \in 1..Len(calls) :
           /\ calls[i].form = "record" /\ calls[i].res = OkRecord(<<>>)
           /\ calls[j].form = "record" /\ calls[j].res.rec # <<>>

\* the function of the call at the root, or of the only entry of the root
RootCall ==
    IF root.tag = "Call" THEN <<"@", root.function, root.value>>
    ELSE IF /\ root.tag = "ObjectWithCalls"
            /\ Len(root.entries) = 1
            /\ root.entries[1].rc = "Call"
         THEN <<"#", root.entries[1].function, root.entries[1].value>>
         ELSE <<>>

\* the error is an InvalidFunction error that names the function
NamesFunction(err, name) ==
    \/ /\ err.type = "InvalidFunction"
       /\ "name" \in DOMAIN err
       /\ err.name = name
    \/ /\ err.type = "Eval"
       /\ "e" \in DOMAIN err.cause
       /\ err.cause.e = "InvalidFunction"
       /\ err.cause.name \in {name, "@" \o name, "#" \o name}

\* C6: a call of a function that is not registered (`@missing v`,
\* `#missing v`, v evaluating to a value) fails with the InvalidFunction
\* error that identifies the missing name.
C6_UnknownFunctionIsNamed ==
    (/\ Evaluated
     /\ RootCall # <<>>
     /\ RootCall[2] = "missing"
     /\ eval(evaluator, Fresh, RootCall[3]).res.kind = "Ok") =>
        /\ result.kind = "Err"
        /\ NamesFunction(result.err, "missing")

\* a tree of Number, Float, String, Array and Object nodes, the objects
\* being Value::Object or, as parsed, ObjectWithCalls of plain records
RECURSIVE IsLiteral(_)
IsLiteral(v) ==
    CASE v.tag \in {"Number", "Float", "String"} -> TRUE
      [] v.tag = "Array" -> \A i \in 1..Len(v.items) : IsLiteral(v.items[i])
      [] v.tag = "Object" ->
           \A i \in 1..Len(v.records) : IsLiteral(v.records[i].value)
      [] v.tag = "ObjectWithCalls" ->
           \A i \in 1..Len(v.entries) :
               v.entries[i].rc = "Record" /\ IsLiteral(v.entries[i].value)
      [] OTHER -> FALSE

\* C7: evaluating a tree of literals (no call anywhere, so that the dispatch
\* tables are never consulted) returns a tree equal (==) to the input.
C7_LiteralsRoundTrip ==
    (Evaluated /\ IsLiteral(root)) => result = Ok(root)

\* C8: evaluating an Array returns an Array of the same length whose i-th
\* element is the evaluation of the i-th element of the input.
C8_ArrayElementwise ==
    (/\ Evaluated
     /\ root.tag = "Array"
     /\ \A i \in 1..Len(root.items) :
            eval(evaluator, Fresh, root.items[i]).res.kind = "Ok") =>
        /\ result.kind = "Ok"
        /\ result.value.tag = "Array"
        /\ Len(result.value.items) = Len(root.items)
        /\ \A i \in 1..Len(root.items) :
               Ok(result.value.items[i]) = eval(evaluator, Fresh, root.items[i]).res

(***************************************************************************)
(* lexer.rs                                                                *)
(***************************************************************************)
\* Token { kind, pos }: n is the payload of Number, s of ID and String
Token(kind, n, s, start, end) ==
    [kind |-> kind, n |-> n, s |-> s, pos |-> [start |-> start, end |-> end]]

\* #[derive(Default)]: kind EndOfInput, pos 0..0
DefaultToken == Token("EndOfInput", 0, "", 0, 0)

Symbol(kind, start, end) == Token(kind, 0, "", start, end)

AsciiDigits == {"0", "1", "2", "3", "4", "5", "6", "7", "8", "9"}

\* char::to_digit(10)
to_digit(ch) ==
    CASE ch = "0" -> 0 [] ch = "1" -> 1 [] ch = "2" -> 2 [] ch = "3" -> 3
      [] ch = "4" -> 4 [] ch = "5" -> 5 [] ch = "6" -> 6 [] ch = "7" -> 7
      [] ch = "8" -> 8 [] ch = "9" -> 9

Letters == {"a", "b", "x", "y", "é"}

\* char::is_alphanumeric on the characters of the model
is_alphanumeric(ch) == ch \in Letters \cup AsciiDigits

\* char::is_whitespace on the characters of the model
is_whitespace(ch) == ch \in {" ", "\t", "\n"}

\* char::len_utf8 on the characters of the model
len_utf8(ch) == IF ch = "é" THEN 2 ELSE 1

\* CharIndices: the byte offset of the i-th character of s
RECURSIVE ByteOffset(_, _)
ByteOffset(s, i) ==
    IF i <= 1 THEN 0 ELSE ByteOffset(s, i - 1) + len_utf8(s[i - 1])

\* str::len: the length in bytes
ByteLen(s) == ByteOffset(s, Len(s) + 1)

\* i32::ilog10 of a positive number
RECURSIVE ilog10(_)
ilog10(x) == IF x < 10 THEN 0 ELSE 1 + ilog10(x \div 10)

Panic(what) == [kind |-> "Panic", what |-> what]

RECURSIVE skip_spaces(_, _)
skip_spaces(s, it) ==
    IF it <= Len(s) /\ is_whitespace(s[it]) /\ s[it] # "\n"
    THEN skip_spaces(s, it + 1)
    ELSE it

\* The loop of lex_number; the iterator stands before character `it`.
\* The digit runs of the model are too short for x to leave the i32 range.
RECURSIVE lex_number_loop(_, _, _, _, _)
lex_number_loop(s, it, x, first, start) ==
    IF it > Len(s)
    THEN IF x <= 0
         THEN Panic("ilog10")
         ELSE [kind |-> "Ok",
               token |-> Token("Number", x, "", start, start + ilog10(x) + 1),
               it |-> it]
    ELSE LET pos == ByteOffset(s, it)
             started == IF first THEN pos ELSE start
         IN IF s[it] \in AsciiDigits
            THEN lex_number_loop(s, it + 1, x * 10 + to_digit(s[it]),
                                 FALSE, started)
            ELSE [kind |-> "Ok",
                  token |-> Token("Number", x, "", started, pos),
                  it |-> it]

lex_number(s, it) == lex_number_loop(s, it, 0, TRUE, 0)

\* The loop of lex_ident; len is x.len(), the bytes pushed to x.
RECURSIVE lex_ident_loop(_, _, _, _, _, _)
lex_ident_loop(s, it, x, len, first, start) ==
    IF it > Len(s)
    THEN [kind |-> "Ok",
          token |-> Token("ID", 0, x, start, start + len),
          it |-> it]
    ELSE LET pos == ByteOffset(s, it)
             started == IF first THEN pos ELSE start
         IN IF is_alphanumeric(s[it]) \/ s[it] = "-" \/ s[it] = "_"
            THEN lex_ident_loop(s, it + 1, x \o s[it], len + len_utf8(s[it]),
                                FALSE, started)
            ELSE [kind |-> "Ok",
                  token |-> Token("ID", 0, x, started, pos),
                  it |-> it]

lex_ident(s, it) == lex_ident_loop(s, it, "", 0, TRUE, 0)

\* The while loop of lex_string, after the opening quote.
RECURSIVE lex_string_loop(_, _, _, _)
lex_string_loop(s, it, x, start) ==
    IF it > Len(s)
    THEN [kind |-> "Ok", token |-> Token("EndOfInput", 0, "", start, 0),
          it |-> it]
    ELSE IF s[it] = "\""
         THEN [kind |-> "Ok",
               token |-> Token("String", 0, x, start, ByteOffset(s, it)),
               it |-> it + 1]
         ELSE lex_string_loop(s, it + 1, x \o s[it], start)

lex_string(s, it) ==
    IF it <= Len(s) /\ s[it] = "\""
    THEN lex_string_loop(s, it + 1, "", ByteOffset(s, it))
    ELSE [kind |-> "Ok", token |-> DefaultToken, it |-> it]

SymbolKind(ch) ==
    CASE ch \in {";", "\n"} -> "Separator"
      [] ch = "=" -> "Assign"
      [] ch = "{" -> "LeftBrace"
      [] ch = "}" -> "RightBrace"
      [] ch = "." -> "Dot"
      [] ch = "@" -> "ValueCall"
      [] ch = "#" -> "RecordCall"

\* The loop of tokenize; the iterator stands before character `at`.
RECURSIVE tokenize_loop(_, _, _)
tokenize_loop(s, at, toks) ==
    LET it == skip_spaces(s, at) IN
    IF it > Len(s)
    THEN [kind |-> "Ok",
          tokens |-> Append(toks, Symbol("EndOfInput", ByteLen(s), ByteLen(s)))]
    ELSE LET ch == s[it]
             pos == ByteOffset(s, it)
             Lexed(r) == IF r.kind # "Ok" THEN r
                         ELSE tokenize_loop(s, r.it, Append(toks, r.token))
         IN CASE ch \in {";", "\n", "=", "{", "}", ".", "@", "#"} ->
                   tokenize_loop(s, it + 1,
                                 Append(toks, Symbol(SymbolKind(ch), pos, pos + 1)))
              [] ch = "\"" -> Lexed(lex_string(s, it))
              [] ch \in AsciiDigits -> Lexed(lex_number(s, it))
              [] is_alphanumeric(ch) /\ ch \notin AsciiDigits ->
                   Lexed(lex_ident(s, it))
              [] OTHER -> Panic("unimplemented")

tokenize(s) == tokenize_loop(s, 1, <<>>)

(***************************************************************************)
(* parser.rs                                                               *)
(***************************************************************************)
\* parser::Error { error, pos }
ParseError(error, pos) == [kind |-> "Err", err |-> [error |-> error, pos |-> pos]]

\* FilePos::default()
DefaultPos == [start |-> 0, end |-> 0]

\* an iterator whose next() does not move
NextToken_stuck(toks, it) == it

\* Peekable::next on the slice iterator standing before token `it`
NextToken(toks, it) == IF it > Len(toks) THEN it ELSE it + 1

\* 10^k
RECURSIVE Pow10(_)
Pow10(k) == IF k = 0 THEN 1 ELSE 10 * Pow10(k - 1)

\* the decimal mant * 10^-dec without trailing zeros in its fraction
RECURSIVE Decimal(_, _)
Decimal(mant, dec) ==
    IF dec > 0 /\ mant % 10 = 0 THEN Decimal(mant \div 10, dec - 1)
    ELSE Float(mant, dec)

\* 10.0_f32.powi(-decimals).mul_add(n as f32, num as f32)
FloatOf(num, n) ==
    LET decimals == (IF n > 0 THEN ilog10(n) ELSE 0) + 1
    IN Decimal(num * Pow10(decimals) + n, decimals)

RECURSIVE parse_value(_, _)
RECURSIVE parse_record(_, _)
RECURSIVE parse_multiple_values(_, _, _)
RECURSIVE parse_multiple_records(_, _, _, _)
RECURSIVE parse_call(_, _)

parse_value(toks, it) ==
    IF it > Len(toks) THEN ParseError("EndOfInput", DefaultPos)
    ELSE LET token == toks[it] IN
         CASE token.kind = "Number" ->
                LET dot == it + 1
                    frac == it + 2
                IN IF dot <= Len(toks) /\ toks[dot].kind = "Dot"
                   THEN IF frac <= Len(toks)
                        THEN IF toks[frac].kind = "Number"
                             THEN [kind |-> "Ok",
                                   value |-> FloatOf(token.n, toks[frac].n),
                                   it |-> frac]
                             ELSE ParseError("ExpectedNumber", toks[frac].pos)
                        ELSE ParseError("EndOfInput", toks[dot].pos)
                   ELSE [kind |-> "Ok", value |-> Number(token.n), it |-> dot]
           [] token.kind = "String" ->
                [kind |-> "Ok", value |-> String(token.s), it |-> it]
           [] token.kind = "LeftBrace" ->
                LET records == parse_multiple_records(toks, it + 1,
                                                      "RightBrace", <<>>)
                IN IF records.kind # "Ok" THEN records
                   ELSE [kind |-> "Ok",
                         value |-> ObjectWithCalls(records.value),
                         it |-> records.it]
           [] token.kind = "LeftBracket" ->
                LET values == parse_multiple_values(toks, it + 1, <<>>)
                IN IF values.kind # "Ok" THEN values
                   ELSE [kind |-> "Ok", value |-> Array(values.value),
                         it |-> values.it]
           [] token.kind = "ValueCall" ->
                LET call == parse_call(toks, it + 1)
                IN IF call.kind # "Ok" THEN call
                   ELSE [kind |-> "Ok",
                         value |-> CallValue(call.value.function,
                                             call.value.value),
                         it |-> call.it]
           [] OTHER -> ParseError("ExpectedValue", token.pos)

parse_record(toks, it) ==
    IF it > Len(toks) THEN ParseError("EndOfInput", DefaultPos)
    ELSE LET token == toks[it] IN
         IF token.kind = "ID"
         THEN IF it + 1 <= Len(toks)
              THEN IF toks[it + 1].kind = "Assign"
                   THEN LET value == parse_value(toks, it + 2)
                        IN IF value.kind # "Ok" THEN value
                           ELSE [kind |-> "Ok",
                                 value |-> RecordEntry(token.s, value.value),
                                 it |-> value.it]
                   ELSE ParseError("ExpectedAssign", toks[it + 1].pos)
              ELSE ParseError("EndOfInput", token.pos)
         ELSE ParseError("ExpectedIdentifier", token.pos)

\* The loop of parse_multiple_values, `values` being the vector so far.
parse_multiple_values(toks, it, values) ==
    IF it > Len(toks) THEN ParseError("EndOfInput", DefaultPos)
    ELSE LET token == toks[it] IN
         CASE token.kind \in {"RightBracket", "EndOfInput"} ->
                [kind |-> "Ok", value |-> values, it |-> it]
           [] token.kind = "String" ->
                LET value == parse_value(toks, it)
                IN IF value.kind # "Ok" THEN value
                   ELSE parse_multiple_values(toks,
                            NextToken(toks, value.it),
                            Append(values, value.value))
           [] OTHER ->
                LET value == parse_value(toks, it)
                IN IF value.kind # "Ok" THEN value
                   ELSE parse_multiple_values(toks, value.it,
                                              Append(values, value.value))

\* The loop of parse_multiple_records, `records` being the vector so far.
parse_multiple_records(toks, it, end, records) ==
    IF it > Len(toks) THEN ParseError("EndOfInput", DefaultPos)
    ELSE LET token == toks[it] IN
         CASE token.kind = "ID" ->
                LET record == parse_record(toks, it)
                IN IF record.kind # "Ok" THEN record
                   ELSE parse_multiple_records(toks,
                            NextToken(toks, record.it), end,
                            Append(records, record.value))
           [] token.kind = "RecordCall" ->
                LET call == parse_call(toks, it + 1)
                IN IF call.kind # "Ok" THEN call
                   ELSE parse_multiple_records(toks,
                            NextToken(toks, call.it), end,
                            Append(records,
                                   CallEntry(call.value.function,
                                             call.value.value)))
           [] token.kind = "Separator" ->
                parse_multiple_records(toks, it + 1, end, records)
           [] token.kind \notin {"ID", "RecordCall", "Separator"}
              /\ token.kind = end ->
                [kind |-> "Ok", value |-> records, it |-> it]
           [] token.kind = "EndOfInput" /\ token.kind # end ->
                ParseError("EndOfInput", DefaultPos)
           [] OTHER -> Panic("todo")

parse_call(toks, it) ==
    IF it > Len(toks) THEN ParseError("EndOfInput", DefaultPos)
    ELSE LET token == toks[it] IN
         IF token.kind = "ID"
         THEN LET value == parse_value(toks, it + 1)
              IN IF value.kind # "Ok" THEN value
                 ELSE [kind |-> "Ok",
                       value |-> [function |-> token.s, value |-> value.value],
                       it |-> value.it]
         ELSE ParseError("ExpectedIdentifier", token.pos)

parse(toks) ==
    LET records == parse_multiple_records(toks, 1, "EndOfInput", <<>>)
    IN IF records.kind # "Ok" THEN records
       ELSE Ok(ObjectWithCalls(records.value))

(***************************************************************************)
(* Parsing a written document: the entries are written out as tokens, each *)
(* entry followed by a chosen number of separators.                        *)
(***************************************************************************)
Proto(kind, n, str) == [kind |-> kind, n |-> n, s |-> str]

Sym(kind) == Proto(kind, 0, "")

RECURSIVE Repeat(_, _)
Repeat(x, k) == IF k = 0 THEN <<>> ELSE <<x>> \o Repeat(x, k - 1)

RECURSIVE WriteValue(_, _)
RECURSIVE WriteValues(_, _, _)
RECURSIVE WriteEntries(_, _, _, _)

\* the tokens of a value; `inner` separators follow each entry of a nested object
WriteValue(v, inner) ==
    CASE v.tag = "Number" -> <<Proto("Number", v.n, "")>>
      [] v.tag = "Float" ->
           <<Proto("Number", v.mant \div Pow10(v.dec), ""), Sym("Dot"),
             Proto("Number", v.mant % Pow10(v.dec), "")>>
      [] v.tag = "String" -> <<Proto("String", 0, v.s)>>
      [] v.tag = "ObjectWithCalls" ->
           <<Sym("LeftBrace")>>
           \o WriteEntries(v.entries, [i \in 1..Len(v.entries) |-> inner],
                           inner, 1)
           \o <<Sym("RightBrace")>>
      [] v.tag = "Array" ->
           <<Sym("LeftBracket")>> \o WriteValues(v.items, inner, 1)
           \o <<Sym("RightBracket")>>
      [] v.tag = "Call" ->
           <<Sym("ValueCall"), Proto("ID", 0, v.function)>>
           \o WriteValue(v.value, inner)

WriteValues(items, inner, i) ==
    IF i > Len(items) THEN <<>>
    ELSE WriteValue(items[i], inner) \o WriteValues(items, inner, i + 1)

WriteEntries(entries, seps, inner, i) ==
    IF i > Len(entries) THEN <<>>
    ELSE (IF entries[i].rc = "Record"
          THEN <<Proto("ID", 0, entries[i].id), Sym("Assign")>>
          ELSE <<Sym("RecordCall"), Proto("ID", 0, entries[i].function)>>)
         \o WriteValue(entries[i].value, inner)
         \o Repeat(Sym("Separator"), seps[i])
         \o WriteEntries(entries, seps, inner, i + 1)

\* every token one byte wide, one after the other, then end-of-input
Positioned(protos) ==
    [i \in 1..Len(protos) + 1 |->
        IF i <= Len(protos)
        THEN Token(protos[i].kind, protos[i].n, protos[i].s, i - 1, i)
        ELSE Symbol("EndOfInput", Len(protos), Len(protos))]

WriteDocument(w) == Positioned(WriteEntries(w.entries, w.seps, w.inner, 1))

WrittenValues ==
    {Number(2), Float(15, 1), String("a"),
     ObjectWithCalls(<<>>),
     ObjectWithCalls(<<RecordEntry("y", String("a"))>>),
     ObjectWithCalls(<<RecordEntry("y", Number(2))>>),
     Array(<<>>), Array(<<Number(2)>>),
     CallValue("f", String("a")), CallValue("f", Number(2))}

WrittenEntries ==
    {RecordEntry("x", v) : v \in WrittenValues}
    \cup {CallEntry("g", v) : v \in {Number(2), String("a"), ObjectWithCalls(<<>>)}}

WrittenDocuments ==
    UNION {[entries : {es}, seps : [1..Len(es) -> 0..MaxSeparators], inner : 0..1] :
              es \in SeqsBetween(WrittenEntries, 0, MaxWritten)}

InitParse ==
    /\ pc = "written"
    /\ evaluator = "none"
    /\ good_evaluator = DefaultEvaluator
    /\ root = Number(0)
    /\ result = NoResult
    /\ calls = <<>>
    /\ written \in WrittenDocuments
    /\ tokens = WriteDocument(written)
    /\ parsed = NoResult
    /\ source = <<>>
    /\ cursor = 0
    /\ locals = <<>>

\* parser::parse(&tokens)
Parse ==
    /\ pc = "written"
    /\ parsed' = parse(tokens)
    /\ pc' = "parsed"
    /\ UNCHANGED <<evaluator, good_evaluator, root, result, calls,
                   written, tokens, source, cursor, locals>>

NextParse == Parse

SpecParse == InitParse /\ [][NextParse]_vars

\* C9: parse accepts every sequence of Record and #-Call entries, each
\* followed by zero or more separators, and returns exactly those entries in
\* source order, whatever kind of value an entry ends with.
C9_ObjectParsingAcceptsEntries ==
    pc = "parsed" => parsed = Ok(ObjectWithCalls(written.entries))

(***************************************************************************)
(* Parsing a float typed as digits, a dot and digits.                      *)
(***************************************************************************)
FloatDigits == {"0", "2", "3", "4"}

TypedFloats ==
    [int : SeqsBetween(FloatDigits, 1, MaxIntDigits),
     frac : SeqsBetween(FloatDigits, 1, MaxFracDigits),
     end : {<<>>, <<"\n">>}]

InitFloat ==
    /\ pc = "typed"
    /\ evaluator = "none"
    /\ good_evaluator = DefaultEvaluator
    /\ root = Number(0)
    /\ result = NoResult
    /\ calls = <<>>
    /\ written \in TypedFloats
    /\ tokens = <<>>
    /\ parsed = NoResult
    /\ source = written.int \o <<".">> \o written.frac \o written.end
    /\ cursor = 0
    /\ locals = <<>>

\* lexer::tokenize(&s)
Tokenize ==
    /\ pc = "typed"
    /\ LET r == tokenize(source) IN
         IF r.kind = "Ok"
         THEN tokens' = r.tokens /\ pc' = "tokenized"
         ELSE tokens' = tokens /\ pc' = "panicked"
    /\ UNCHANGED <<evaluator, good_evaluator, root, result, calls,
                   written, parsed, source, cursor, locals>>

\* parse_value(&mut tokens.iter().peekable())
ParseValue ==
    /\ pc = "tokenized"
    /\ LET r == parse_value(tokens, 1) IN
         parsed' = IF r.kind = "Ok" THEN Ok(r.value) ELSE r
    /\ pc' = "parsed_value"
    /\ UNCHANGED <<evaluator, good_evaluator, root, result, calls,
                   written, tokens, source, cursor, locals>>

NextFloat == Tokenize \/ ParseValue

SpecFloat == InitFloat /\ [][NextFloat]_vars

\* the number a run of decimal digits denotes
RECURSIVE DigitsValue(_)
DigitsValue(ds) ==
    IF ds = <<>> THEN 0
    ELSE 10 * DigitsValue(SubSeq(ds, 1, Len(ds) - 1)) + to_digit(ds[Len(ds)])

\* C10: an integer part n, a dot and a run m of d typed digits (leading
\* zeros counted in d) parse to Float(n + m * 10^-d).
C10_FloatConstruction ==
    pc = "parsed_value" =>
        LET n == DigitsValue(written.int)
            m == DigitsValue(written.frac)
            d == Len(written.frac)
        IN parsed = Ok(Decimal(n * Pow10(d) + m, d))

(***************************************************************************)
(* Parsing the elements of a written array: the elements are written out   *)
(* as tokens one after the other, then `]` or the end of the input.        *)
(***************************************************************************)
MaxItems == 2

WrittenItems ==
    {Number(2), Float(15, 1), String("a"),
     ObjectWithCalls(<<>>),
     ObjectWithCalls(<<RecordEntry("y", String("a"))>>),
     Array(<<>>), Array(<<Number(2)>>),
     CallValue("f", String("a")), CallValue("f", Number(2))}

WrittenArrays ==
    [items : SeqsBetween(WrittenItems, 0, MaxItems),
     close : {<<>>, <<Sym("RightBracket")>>}]

InitArray ==
    /\ pc = "written_array"
    /\ evaluator = "none"
    /\ good_evaluator = DefaultEvaluator
    /\ root = Number(0)
    /\ result = NoResult
    /\ calls = <<>>
    /\ written \in WrittenArrays
    /\ tokens = Positioned(WriteValues(written.items, 0, 1) \o written.close)
    /\ parsed = NoResult
    /\ source = <<>>
    /\ cursor = 0
    /\ locals = <<>>

\* parse_multiple_values(&mut tokens.iter().peekable())
ParseMultipleValues ==
    /\ pc = "written_array"
    /\ parsed' = parse_multiple_values(tokens, 1, <<>>)
    /\ pc' = "parsed_array"
    /\ UNCHANGED <<evaluator, good_evaluator, root, result, calls,
                   written, tokens, source, cursor, locals>>

NextArray == ParseMultipleValues

SpecArray == InitArray /\ [][NextArray]_vars

\* C11: parsing the elements of an array yields exactly the written
\* elements, one Value each and in source order, whatever kind of value an
\* element is, and stops at the `]` or end-of-input that follows the last
\* element's own tokens.
C11_ArrayElementsAsWritten ==
    pc = "parsed_array" =>
        /\ parsed.kind = "Ok"
        /\ parsed.value = written.items
        /\ parsed.it = Len(WriteValues(written.items, 0, 1)) + 1

(***************************************************************************)
(* The front end on typed source text: tokenize, then parse.               *)
(***************************************************************************)
MaxSource == 4

Chars == {"0", "2", "x", "é", "=", "\"", "{", "}", " ", ".", "["}

Sources == SeqsBetween(Chars, 0, MaxSource)

InitSource ==
    /\ pc = "typed"
    /\ evaluator = "none"
    /\ good_evaluator = DefaultEvaluator
    /\ root = Number(0)
    /\ result = NoResult
    /\ calls = <<>>
    /\ written = <<>>
    /\ tokens = <<>>
    /\ parsed = NoResult
    /\ source \in Sources
    /\ cursor = 0
    /\ locals = <<>>

\* parser::parse(&tokens) on the tokens of the source
ParseSource ==
    /\ pc = "tokenized"
    /\ parsed' = parse(tokens)
    /\ pc' = "parsed"
    /\ UNCHANGED <<evaluator, good_evaluator, root, result, calls,
                   written, tokens, source, cursor, locals>>

NextSource == Tokenize \/ ParseSource

SpecSource == InitSource /\ [][NextSource]_vars

ErrorTypes ==
    {"EndOfInput", "ExpectedIdentifier", "ExpectedValue", "ExpectedAssign",
     "ExpectedNumber"}

\* C12: on the tokens of any source text parse returns Ok or an error of one
\* of the five kinds whose pos is the span of a token of the input; it does
\* not panic, and it does not report the default 0..0 position unless the
\* offending token itself lies there.
C12_ParseErrorsArePositioned ==
    pc = "parsed" =>
        /\ parsed.kind \in {"Ok", "Err"}
        /\ parsed.kind = "Err" =>
               /\ parsed.err.error \in ErrorTypes
               /\ \E i \in 1..Len(tokens) : tokens[i].pos = parsed.err.pos

\* C13: the sequence tokenize returns holds the EndOfInput token exactly
\* once, as its last element, with the empty span at the length of the
\* input.
C13_EndOfInputOnceAndLast ==
    pc = "tokenized" =>
        /\ Len(tokens) >= 1
        /\ tokens[Len(tokens)] =
               Symbol("EndOfInput", ByteLen(source), ByteLen(source))
        /\ \A i \in 1..Len(tokens) - 1 : tokens[i].kind # "EndOfInput"

\* C14: tokenize returns for every source text, and what it returns for a
\* text with an unrecognised character or an unterminated string is an error
\* rather than a token sequence with a malformed token in it.
C14_TokenizeIsTotal ==
    /\ pc # "panicked"
    /\ pc = "tokenized" =>
           \A i \in 1..Len(tokens) - 1 :
               tokens[i] # Token("EndOfInput", 0, "", tokens[i].pos.start, 0)

\* the characters of s whose bytes lie in start..end-1
Bytes(s, start, end) ==
    SelectSeq([i \in 1..Len(s) |-> [ch |-> s[i], at |-> ByteOffset(s, i)]],
              LAMBDA c : start <= c.at /\ c.at < end)

\* the string of a sequence of characters
RECURSIVE Text(_)
Text(cs) == IF cs = <<>> THEN "" ELSE cs[1].ch \o Text(Tail(cs))

\* the source text a token of the given kind and payload is written as
ExactSpan(s, token) ==
    LET cs == Bytes(s, token.pos.start, token.pos.end)
        digits == [i \in 1..Len(cs) |-> cs[i].ch]
    IN /\ token.pos.start <= token.pos.end
       /\ token.pos.end <= ByteLen(s)
       /\ CASE token.kind = "Number" ->
                 /\ cs # <<>>
                 /\ \A i \in 1..Len(cs) : cs[i].ch \in AsciiDigits
                 /\ DigitsValue(digits) = token.n
            [] token.kind = "ID" -> Text(cs) = token.s
            [] token.kind = "String" -> Text(cs) = "\"" \o token.s \o "\""
            [] token.kind = "EndOfInput" -> cs = <<>>
            [] OTHER -> /\ Len(cs) = 1
                        /\ SymbolKind(cs[1].ch) = token.kind

\* C15: every token of the returned sequence carries the exact half-open
\* byte span of its source text, within the input, and the spans of
\* successive tokens do not overlap and increase.
C15_ExactSpans ==
    pc = "tokenized" =>
        /\ \A i \in 1..Len(tokens) : ExactSpan(source, tokens[i])
        /\ \A i \in 1..Len(tokens) - 1 :
               tokens[i].pos.end <= tokens[i + 1].pos.start

\* C16: eval does not change the tree it is given: whatever it returns, the
\* input tree after the call is the tree before the call; the rewritten
\* tree is the result, a value of its own.
C16_InputNotMutated == [][root' = root]_vars

\* a tree was evaluated, with host functions invoked, to a different tree
C16_Witness ==
    /\ Evaluated
    /\ calls # <<>>
    /\ result.kind = "Ok"
    /\ result.value # root

\* the invocations of #meta-lang by the builtin evaluator
MetaLangCalls ==
    {i \in 1..Len(calls) :
        calls[i].form = "record" /\ calls[i].function = "meta-lang"}

\* C17: #meta-lang v of the builtin evaluator: for the Float VERSION the
\* directive gives no record and the evaluation goes on; for another Float
\* the whole evaluation fails with VersionMismatch; for a value that is not
\* a Float the whole evaluation fails with InvalidData.
C17_MetaLangChecksVersion ==
    (Evaluated /\ evaluator = "goodies") =>
        \A i \in MetaLangCalls :
            LET v == calls[i].value IN
            CASE v = VERSION ->
                   /\ calls[i].res = OkRecord(<<>>)
                   /\ i = Len(calls) => result.kind # "Err"
              [] v.tag = "Float" /\ v # VERSION ->
                   /\ calls[i].res = Err(GoodiesErrorValue("VersionMismatch", v))
                   /\ result = calls[i].res
              [] OTHER ->
                   /\ calls[i].res = Err(GoodiesErrorValue("InvalidData", v))
                   /\ result = calls[i].res

\* the required version was checked twice: VERSION passed and the
\* evaluation went on to a directive requiring 2.0, which failed it
C17_Witness ==
    /\ Evaluated
    /\ evaluator = "goodies"
    /\ \E i, j \in MetaLangCalls :
           /\ i < j
           /\ calls[i].value = VERSION
           /\ calls[j].value = Float(2, 0)
    /\ result = Err(GoodiesErrorValue("VersionMismatch", Float(2, 0)))

\* the Call nodes of a tree, both forms, depth first and left to right, a
\* nested call before the call around it
RECURSIVE CallsInOrder(_)
RECURSIVE CallsInOrderOf(_, _)
CallsInOrderOf(s, i) ==
    IF i > Len(s) THEN <<>>
    ELSE CallsInOrder(s[i]) \o CallsInOrderOf(s, i + 1)

CallsInOrder(v) ==
    IF "rc" \in DOMAIN v
    THEN CallsInOrder(v.value)
         \o (IF v.rc = "Call"
             THEN <<[form |-> "record", function |-> v.function]>>
             ELSE <<>>)
    ELSE CASE v.tag = "Call" ->
                CallsInOrder(v.value)
                \o <<[form |-> "value", function |-> v.function]>>
           [] v.tag = "Typed" -> CallsInOrder(v.value)
           [] v.tag = "ObjectWithCalls" -> CallsInOrderOf(v.entries, 1)
           [] v.tag = "Object" ->
                CallsInOrderOf([i \in 1..Len(v.records) |-> v.records[i].value], 1)
           [] v.tag = "Array" -> CallsInOrderOf(v.items, 1)
           [] OTHER -> <<>>

\* the functions invoked, in the order of their invocation
InvokedInOrder ==
    [i \in 1..Len(calls) |->
        [form |-> calls[i].form, function |-> calls[i].function]]

\* C19: in a successful evaluation the host function invocations are the
\* Call nodes of the input tree, one invocation per node, in depth-first,
\* left-to-right source order.
C19_OneInvocationPerCallInOrder ==
    (Evaluated /\ result.kind = "Ok") => InvokedInOrder = CallsInOrder(root)

\* C20: when #meta-eval of the builtin evaluator fails, the evaluator's
\* value_functions and record_functions tables are what they were before
\* the directive was invoked (the failing invocation is the last one, so the
\* tables after it are the tables eval leaves behind).
C20_FailedMetaEvalKeepsTables ==
    (/\ Evaluated
     /\ evaluator = "goodies"
     /\ calls # <<>>
     /\ Last(calls).form = "record"
     /\ Last(calls).function = "meta-eval"
     /\ Last(calls).res.kind = "Err") =>
        good_evaluator = Last(calls).self

(***************************************************************************)
(* The pipeline of main.rs step by step: one action per iteration of a     *)
(* loop of the lexer or of the parser, then the evaluation.  A running     *)
(* loop records where its current iteration began (`from`) and where the   *)
(* iteration before it began (`prev`, 0 for the first iteration).          *)
(***************************************************************************)
MaxText == 4
MaxStepEntries == 1

StepChars == {"0", "2", "x", " ", "=", "\"", ";", "["}

Top == locals[Len(locals)]

Below == SubSeq(locals, 1, Len(locals) - 1)

\* the next iteration of a loop begins at `at`
Iterate(frame, at) == [frame EXCEPT !.prev = frame.from, !.from = at]

\* loop { skip_spaces(&mut it); ..
TokenizeLoop(at) == [loop |-> "tokenize", prev |-> 0, from |-> at]

SkipSpacesLoop(at) == [loop |-> "skip_spaces", prev |-> 0, from |-> at]

\* `continue` in tokenize: the next iteration begins by calling skip_spaces
ContinueTokenize(at) == <<Iterate(locals[1], at), SkipSpacesLoop(at)>>

\* one iteration of the loop of skip_spaces
SkipSpacesStep ==
    /\ pc = "skip_spaces"
    /\ IF /\ cursor <= Len(source)
          /\ is_whitespace(source[cursor])
          /\ source[cursor] # "\n"
       THEN /\ cursor' = cursor + 1
            /\ locals' = Append(Below, Iterate(Top, cursor + 1))
            /\ pc' = "skip_spaces"
       ELSE /\ cursor' = cursor
            /\ locals' = Below
            /\ pc' = "tokenize"
    /\ UNCHANGED <<evaluator, good_evaluator, root, result, calls,
                   written, tokens, parsed, source>>

\* parse(&tokens): parse_multiple_records(&mut it, &EndOfInput)
RecordsLoop(at, end, ctx) ==
    [loop |-> "parse_multiple_records", prev |-> 0, from |-> at,
     end |-> end, acc |-> <<>>, ctx |-> ctx]

\* one iteration of the loop of tokenize, after its skip_spaces: up to the
\* `continue`, the `break`, or the call of a lex_ function
TokenizeStep ==
    /\ pc = "tokenize"
    /\ IF cursor > Len(source)
       THEN /\ tokens' = Append(tokens, Symbol("EndOfInput", ByteLen(source),
                                               ByteLen(source)))
            /\ pc' = "parse"
            /\ cursor' = 1
            /\ locals' = <<RecordsLoop(1, "EndOfInput", <<>>)>>
       ELSE LET ch == source[cursor]
                pos == ByteOffset(source, cursor)
            IN CASE ch \in {";", "\n", "=", "{", "}", ".", "@", "#"} ->
                      /\ tokens' = Append(tokens,
                                          Symbol(SymbolKind(ch), pos, pos + 1))
                      /\ cursor' = cursor + 1
                      /\ locals' = ContinueTokenize(cursor + 1)
                      /\ pc' = "skip_spaces"
                 [] ch = "\"" ->
                      /\ tokens' = tokens
                      /\ cursor' = cursor + 1
                      /\ locals' = Append(locals,
                             [loop |-> "lex_string", prev |-> 0,
                              from |-> cursor + 1, x |-> "", start |-> pos])
                      /\ pc' = "lex_string"
                 [] ch \in AsciiDigits ->
                      /\ tokens' = tokens
                      /\ cursor' = cursor
                      /\ locals' = Append(locals,
                             [loop |-> "lex_number", prev |-> 0,
                              from |-> cursor, x |-> 0, first |-> TRUE,
                              start |-> 0])
                      /\ pc' = "lex_number"
                 [] is_alphanumeric(ch) /\ ch \notin AsciiDigits ->
                      /\ tokens' = tokens
                      /\ cursor' = cursor
                      /\ locals' = Append(locals,
                             [loop |-> "lex_ident", prev |-> 0,
                              from |-> cursor, x |-> "", len |-> 0,
                              first |-> TRUE, start |-> 0])
                      /\ pc' = "lex_ident"
                 [] OTHER ->
                      /\ pc' = "aborted"
                      /\ UNCHANGED <<tokens, cursor, locals>>
    /\ UNCHANGED <<evaluator, good_evaluator, root, result, calls,
                   written, parsed, source>>

\* tokens.push(lex_..(&mut it)); continue
PushToken(token) ==
    /\ tokens' = Append(tokens, token)
    /\ cursor' = cursor
    /\ locals' = ContinueTokenize(cursor)
    /\ pc' = "skip_spaces"

\* one iteration of the loop of lex_number
LexNumberStep ==
    /\ pc = "lex_number"
    /\ IF cursor > Len(source)
       THEN IF Top.x <= 0
            THEN /\ pc' = "aborted"
                 /\ UNCHANGED <<tokens, cursor, locals>>
            ELSE PushToken(Token("Number", Top.x, "", Top.start,
                                 Top.start + ilog10(Top.x) + 1))
       ELSE LET ch == source[cursor]
                pos == ByteOffset(source, cursor)
                started == IF Top.first THEN pos ELSE Top.start
            IN IF ch \in AsciiDigits
               THEN /\ cursor' = cursor + 1
                    /\ locals' = Append(Below,
                           Iterate([Top EXCEPT !.x = Top.x * 10 + to_digit(ch),
                                               !.first = FALSE,
                                               !.start = started],
                                   cursor + 1))
                    /\ UNCHANGED <<tokens, pc>>
               ELSE PushToken(Token("Number", Top.x, "", started, pos))
    /\ UNCHANGED <<evaluator, good_evaluator, root, result, calls,
                   written, parsed, source>>

\* one iteration of the loop of lex_ident
LexIdentStep ==
    /\ pc = "lex_ident"
    /\ IF cursor > Len(source)
       THEN PushToken(Token("ID", 0, Top.x, Top.start, Top.start + Top.len))
       ELSE LET ch == source[cursor]
                pos == ByteOffset(source, cursor)
                started == IF Top.first THEN pos ELSE Top.start
            IN IF is_alphanumeric(ch) \/ ch = "-" \/ ch = "_"
               THEN /\ cursor' = cursor + 1
                    /\ locals' = Append(Below,
                           Iterate([Top EXCEPT !.x = Top.x \o ch,
                                               !.len = Top.len + len_utf8(ch),
                                               !.first = FALSE,
                                               !.start = started],
                                   cursor + 1))
                    /\ UNCHANGED <<tokens, pc>>
               ELSE PushToken(Token("ID", 0, Top.x, started, pos))
    /\ UNCHANGED <<evaluator, good_evaluator, root, result, calls,
                   written, parsed, source>>

\* one iteration of the while loop of lex_string
LexStringStep ==
    /\ pc = "lex_string"
    /\ IF cursor > Len(source)
       THEN PushToken(Token("EndOfInput", 0, "", Top.start, 0))
       ELSE IF source[cursor] = "\""
            THEN /\ tokens' = Append(tokens,
                        Token("String", 0, Top.x, Top.start,
                              ByteOffset(source, cursor)))
                 /\ cursor' = cursor + 1
                 /\ locals' = ContinueTokenize(cursor + 1)
                 /\ pc' = "skip_spaces"
            ELSE /\ cursor' = cursor + 1
                 /\ locals' = Append(Below,
                        Iterate([Top EXCEPT !.x = Top.x \o source[cursor]],
                                cursor + 1))
                 /\ UNCHANGED <<tokens, pc>>
    /\ UNCHANGED <<evaluator, good_evaluator, root, result, calls,
                   written, parsed, source>>
ValuesLoop(at, ctx) ==
    [loop |-> "parse_multiple_values", prev |-> 0, from |-> at,
     end |-> "RightBracket", acc |-> <<>>, ctx |-> ctx]

\* the record or calls around a value, outermost first, put around v
RECURSIVE WrapCtx(_, _)
WrapCtx(ctx, v) ==
    IF ctx = <<>> THEN v
    ELSE LET c == ctx[Len(ctx)] IN
         WrapCtx(SubSeq(ctx, 1, Len(ctx) - 1),
                 CASE c.k = "Record" -> RecordEntry(c.name, v)
                   [] c.k = "CallEntry" -> CallEntry(c.name, v)
                   [] c.k = "CallValue" -> CallValue(c.name, v))

\* parse_value (and parse_call for `@`) up to the value, or up to the call of
\* parse_multiple_records / parse_multiple_values for `{` / `[`
RECURSIVE parse_value_head(_, _, _)
parse_value_head(toks, i, ctx) ==
    IF i > Len(toks) THEN ParseError("EndOfInput", DefaultPos)
    ELSE LET token == toks[i] IN
         CASE token.kind \in {"Number", "String"} ->
                LET value == parse_value(toks, i)
                IN IF value.kind # "Ok" THEN value
                   ELSE [kind |-> "Ok", value |-> WrapCtx(ctx, value.value),
                         it |-> value.it]
           [] token.kind = "LeftBrace" ->
                [kind |-> "Open",
                 frame |-> RecordsLoop(i + 1, "RightBrace", ctx)]
           [] token.kind = "LeftBracket" ->
                [kind |-> "Open", frame |-> ValuesLoop(i + 1, ctx)]
           [] token.kind = "ValueCall" ->
                IF i + 1 > Len(toks)
                THEN ParseError("EndOfInput", DefaultPos)
                ELSE IF toks[i + 1].kind = "ID"
                     THEN parse_value_head(toks, i + 2,
                              Append(ctx, [k |-> "CallValue",
                                           name |-> toks[i + 1].s]))
                     ELSE ParseError("ExpectedIdentifier", toks[i + 1].pos)
           [] OTHER -> ParseError("ExpectedValue", token.pos)

\* the body of one iteration of parse_multiple_records, up to the entry, the
\* `break`, or the call of a nested loop
records_iteration(toks, i, end) ==
    IF i > Len(toks) THEN ParseError("EndOfInput", DefaultPos)
    ELSE LET token == toks[i] IN
         CASE token.kind = "ID" ->
                IF i + 1 > Len(toks)
                THEN ParseError("EndOfInput", token.pos)
                ELSE IF toks[i + 1].kind = "Assign"
                     THEN parse_value_head(toks, i + 2,
                              <<[k |-> "Record", name |-> token.s]>>)
                     ELSE ParseError("ExpectedAssign", toks[i + 1].pos)
           [] token.kind = "RecordCall" ->
                IF i + 1 > Len(toks)
                THEN ParseError("EndOfInput", DefaultPos)
                ELSE IF toks[i + 1].kind = "ID"
                     THEN parse_value_head(toks, i + 2,
                              <<[k |-> "CallEntry", name |-> toks[i + 1].s]>>)
                     ELSE ParseError("ExpectedIdentifier", toks[i + 1].pos)
           [] token.kind = "Separator" -> [kind |-> "Skip", it |-> i]
           [] token.kind \notin {"ID", "RecordCall", "Separator"}
              /\ token.kind = end -> [kind |-> "Break"]
           [] token.kind = "EndOfInput" /\ token.kind # end ->
                ParseError("EndOfInput", DefaultPos)
           [] OTHER -> Panic("todo")

\* the body of one iteration of parse_multiple_values
values_iteration(toks, i) ==
    IF i > Len(toks) THEN ParseError("EndOfInput", DefaultPos)
    ELSE LET token == toks[i] IN
         CASE token.kind \in {"RightBracket", "EndOfInput"} -> [kind |-> "Break"]
           [] token.kind = "String" ->
                LET value == parse_value_head(toks, i, <<>>)
                IN [value EXCEPT !.it = NextToken(toks, value.it)]
           [] OTHER -> parse_value_head(toks, i, <<>>)

\* what the step of a parser loop does with the outcome of its iteration;
\* `next` tells whether the loop calls it.next() at the end of an iteration
ParserStep(outcome, next) ==
    LET After(i) == IF next THEN NextToken(tokens, i) ELSE i IN
    CASE outcome.kind = "Err" ->
           /\ parsed' = outcome
           /\ pc' = "failed"
           /\ UNCHANGED <<cursor, locals>>
      [] outcome.kind = "Panic" ->
           /\ parsed' = outcome
           /\ pc' = "aborted"
           /\ UNCHANGED <<cursor, locals>>
      [] outcome.kind = "Ok" ->
           /\ cursor' = After(outcome.it)
           /\ locals' = Append(Below,
                  Iterate([Top EXCEPT !.acc = Append(Top.acc, outcome.value)],
                          After(outcome.it)))
           /\ UNCHANGED <<parsed, pc>>
      [] outcome.kind = "Skip" ->
           /\ cursor' = After(outcome.it)
           /\ locals' = Append(Below, Iterate(Top, After(outcome.it)))
           /\ UNCHANGED <<parsed, pc>>
      [] outcome.kind = "Open" ->
           /\ cursor' = outcome.frame.from
           /\ locals' = Append(locals, outcome.frame)
           /\ UNCHANGED <<parsed, pc>>
      [] outcome.kind = "Break" ->
           LET value == IF Top.loop = "parse_multiple_records"
                        THEN ObjectWithCalls(Top.acc)
                        ELSE Array(Top.acc)
           IN IF Len(locals) = 1
              THEN /\ parsed' = Ok(value)
                   /\ pc' = "eval"
                   /\ locals' = <<>>
                   /\ cursor' = cursor
              ELSE LET caller == locals[Len(locals) - 1]
                       at == IF caller.loop = "parse_multiple_records"
                             THEN NextToken(tokens, cursor)
                             ELSE cursor
                   IN /\ cursor' = at
                      /\ locals' = Append(SubSeq(locals, 1, Len(locals) - 2),
                             Iterate([caller EXCEPT !.acc =
                                         Append(caller.acc,
                                                WrapCtx(Top.ctx, value))],
                                     at))
                      /\ UNCHANGED <<parsed, pc>>

\* one iteration of the loop of parse_multiple_records
ParseRecordsStep ==
    /\ pc = "parse"
    /\ Top.loop = "parse_multiple_records"
    /\ ParserStep(records_iteration(tokens, cursor, Top.end), TRUE)
    /\ UNCHANGED <<evaluator, good_evaluator, root, result, calls,
                   written, tokens, source>>

\* one iteration of the loop of parse_multiple_values
ParseValuesStep ==
    /\ pc = "parse"
    /\ Top.loop = "parse_multiple_values"
    /\ ParserStep(values_iteration(tokens, cursor), FALSE)
    /\ UNCHANGED <<evaluator, good_evaluator, root, result, calls,
                   written, tokens, source>>

\* main.rs: ev.eval(&object)
EvalStep ==
    /\ pc = "eval"
    /\ LET r == eval("T", [self |-> good_evaluator, calls |-> <<>>],
                     parsed.value) IN
         /\ result' = r.res
         /\ good_evaluator' = r.st.self
         /\ calls' = r.st.calls
    /\ evaluator' = "T"
    /\ pc' = "evaluated"
    /\ UNCHANGED <<root, written, tokens, parsed, source, cursor, locals>>

StepSources == SeqsBetween(StepChars, 0, MaxText)

StepDocuments ==
    UNION {[entries : {es}, seps : [1..Len(es) -> 0..1], inner : 0..1] :
              es \in SeqsBetween(WrittenEntries, 1, MaxStepEntries)}

\* either a typed text, about to be tokenized, or the tokens of a written
\* document, about to be parsed
InitSteps ==
    /\ evaluator = "none"
    /\ good_evaluator = DefaultEvaluator
    /\ root = Number(0)
    /\ result = NoResult
    /\ calls = <<>>
    /\ parsed = NoResult
    /\ cursor = 1
    /\ \/ /\ pc = "skip_spaces"
          /\ source \in StepSources
          /\ written = <<>>
          /\ tokens = <<>>
          /\ locals = <<TokenizeLoop(1), SkipSpacesLoop(1)>>
       \/ /\ pc = "parse"
          /\ source = <<>>
          /\ written \in StepDocuments
          /\ tokens = WriteDocument(written)
          /\ locals = <<RecordsLoop(1, "EndOfInput", <<>>)>>

NextSteps ==
    \/ SkipSpacesStep
    \/ TokenizeStep
    \/ LexNumberStep
    \/ LexIdentStep
    \/ LexStringStep
    \/ ParseRecordsStep
    \/ ParseValuesStep
    \/ EvalStep

\* the program is sequential and keeps running until it ends
SpecSteps == InitSteps /\ [][NextSteps]_vars /\ WF_vars(NextSteps)

\* the run is over: by a panic, by a parse error, or after the evaluation
Ended == pc \in {"aborted", "failed", "evaluated"}

\* every iteration of every running loop began further on in the input than
\* the iteration before it
Progress == \A i \in 1..Len(locals) : locals[i].prev < locals[i].from

\* the steps build what the functions return
StepsAgree ==
    /\ pc = "parse" /\ source # <<>> => tokenize(source) = [kind |-> "Ok", tokens |-> tokens]
    /\ pc \in {"eval", "failed"} => parsed = parse(tokens)
    /\ pc = "aborted" =>
          IF parsed = NoResult THEN tokenize(source).kind = "Panic"
          ELSE parsed = parse(tokens)

\* C18: the pipeline runs to its end on every input: every iteration of the
\* loops of tokenize, lex_number, lex_ident, lex_string, skip_spaces,
\* parse_multiple_records and parse_multiple_values begins further on in the
\* input than the one before it, and the run ends with the evaluation, with
\* a parse error or with a panic.
C18_PipelineTerminates == []Progress /\ <>Ended

\* a typed text went through the lexer, the parser and the evaluator
C18_Witness ==
    /\ pc = "evaluated"
    /\ source # <<>>
    /\ result.kind = "Ok"
    /\ result.value.tag = "Object"
    /\ result.value.records # <<>>

====
